---- MODULE Spec2Model ----
(***************************************************************************)
(* kubectl-assistant: the driver (cmd/cli/root.go), the retry-governed     *)
(* completion loop (cmd/cli/completion.go), the two provider call shapes   *)
(* (openaiGptCompletion, openaiGptChatCompletion), the tool registry       *)
(* (cmd/cli/functions.go) and the schema collaborator (fetchK8sSchema and  *)
(* its two callers), as one state machine.                                 *)
(*                                                                         *)
(* Text is a sequence of tokens.  The characters that matter to the code   *)
(* (the backtick and the letters of "yaml") are single tokens, so that     *)
(* strings.ReplaceAll is computed on them; an opaque token stands for a    *)
(* piece of text that holds no backtick.                                   *)
(***************************************************************************)
EXTENDS Integers, Sequences, FiniteSets, TLC

VARIABLES
    flags,          \* the command-line flags (root.go:32-41), fixed at start
    cancelled,      \* ctx of run() is done (signal.NotifyContext, root.go:125)
    dpc,            \* position of the driver
    args,           \* run's args: the prompt fragments
    action,         \* run's action
    completion,     \* run's completion
    exitCode,       \* process exit status, -1 while running
    applied,        \* the calls of applyManifest, in order
    ipc,            \* position inside gptCompletion / retry.Do
    prompt,         \* the strings.Builder shared by all attempts
    content,        \* openaiGptChatCompletion's content
    call,           \* the FunctionCall being dispatched, NoCall when none is
    resp,           \* gptCompletion's resp
    err,            \* the error gptCompletion returns
    retries,        \* retry.WithMaxRetries' attempt counter
    wait,           \* the backoff delay in progress, seconds
    attempts,       \* history: calls of the retried function, this invocation
    providerCalls,  \* history: provider requests, this invocation
    toolDispatches, \* history: calls of funcCall, this invocation
    schemaFetches,  \* history: calls of fetchK8sSchema, this invocation
    toolCallsSeen,  \* history: tool-call responses, this invocation
    rateLimited,    \* history: retryable failures, this invocation
    lastReq,        \* history: the most recent provider request
    lastTool,       \* history: outcome of the most recent funcCall
    reprompts,      \* history: reprompts so far
    attemptErr,     \* history: the error of the most recent attempt
    lastResp,       \* history: the most recent provider response
    choice,         \* history: what the confirmation prompt gave back
    cancelSeen,     \* history: where the invocation was when ctx was cancelled
    toolResults,    \* history: the results of the tools that succeeded, joined
    subject,        \* a text handed to trimTicks
    trimmed,        \* what successive applications of trimTicks made of it
    lookup,         \* a resource name and a fetched schema handed to findSchemaNames
    found,          \* what schemaNames.Run returned for them
    printed         \* history: the completions run has printed, in order

vars == <<flags, cancelled, dpc, args, action, completion, exitCode, applied,
          ipc, prompt, content, call, resp, err, retries, wait, attempts,
          providerCalls, toolDispatches, schemaFetches, toolCallsSeen,
          rateLimited, lastReq, lastTool, reprompts, attemptErr,
          lastResp, choice, cancelSeen, toolResults, subject, trimmed, printed,
          lookup, found>>

----------------------------------------------------------------------------
(* Bounds of the model *)

\* tool-call responses the provider gives in one invocation
MaxToolCalls == 2

\* reprompts the user makes in one run
MaxReprompts == 1

\* pieces a text handed to trimTicks is made of
MaxPieces == 6

\* documents in a manifest
MaxDocs == 2

\* characters of a resource name handed to findSchemaNames
MaxQuery == 2

----------------------------------------------------------------------------
(* Program constants *)

\* retry.WithMaxRetries(10, ...)
MaxRetries == 10

\* retry.NewExponential(1*time.Second), in seconds
BackoffBase == 1

\* http.StatusTooManyRequests
StatusTooManyRequests == 429

apply == "Apply"
dontApply == "Don't Apply"

\* a list of non-chat models that lacks one of the two
getNonChatModelsShort == {"code-davinci-002"}

getNonChatModels == {"code-davinci-002", "text-davinci-003"}

fnCallAuto == "auto"
fnCallNone == "none"

findSchemaNamesName == "findSchemaNames"
getSchemaName == "getSchema"

\* the Functions field of every chat request
DeclaredFunctions == <<findSchemaNamesName, getSchemaName>>

----------------------------------------------------------------------------
(* Text *)

\* the backtick character
Tick == "BACKTICK"
Fence == <<Tick, Tick, Tick>>
FenceYaml == <<Tick, Tick, Tick, "y", "a", "m", "l">>

\* strings.ReplaceAll(s, t, ""), t not empty: non-overlapping, left to right
RECURSIVE ReplaceAll(_, _)
ReplaceAll(s, t) ==
    IF Len(s) < Len(t) THEN s
    ELSE IF SubSeq(s, 1, Len(t)) = t
         THEN ReplaceAll(SubSeq(s, Len(t) + 1, Len(s)), t)
         ELSE <<Head(s)>> \o ReplaceAll(Tail(s), t)

\* strings.Replace(s, t, "", 1): the first occurrence only
RECURSIVE ReplaceFirst(_, _)
ReplaceFirst(s, t) ==
    IF Len(s) < Len(t) THEN s
    ELSE IF SubSeq(s, 1, Len(t)) = t
         THEN SubSeq(s, Len(t) + 1, Len(s))
         ELSE <<Head(s)>> \o ReplaceFirst(Tail(s), t)

\* a trimTicks that strips the first occurrence of each marker only
trimTicksFirstOnly(str) == ReplaceFirst(ReplaceFirst(str, FenceYaml), Fence)

\* a trimTicks that strips only the first marker of its list
trimTicksYamlOnly(str) == ReplaceAll(str, FenceYaml)

trimTicks(str) == ReplaceAll(ReplaceAll(str, FenceYaml), Fence)

\* a WriteString that writes what it is given twice
WriteStringTwice(builder, str) == builder \o str \o str

\* a WriteString that drops what it is given
WriteStringDropped(builder, str) == builder

\* strings.Builder.WriteString
WriteString(builder, str) == builder \o str

\* s has t as a contiguous subsequence (strings.Contains)
Contains(s, t) ==
    \E i \in 0..(Len(s) - Len(t)) : SubSeq(s, i + 1, i + Len(t)) = t

\* fmt.Fprintf(&prompt, "%s", p): a fragment is one opaque token, "" is nothing
Text(p) == IF p = "" THEN <<>> ELSE <<p>>

RECURSIVE Concat(_)
Concat(ps) == IF ps = <<>> THEN <<>> ELSE Text(Head(ps)) \o Concat(Tail(ps))

\* the two literal instructions of gptCompletion
SystemInstruction(useK8s) == IF useK8s THEN <<"SYS-K8S">> ELSE <<"SYS">>

\* a prompt built of the latest fragment only
BuildPromptLatest(useK8s, ps) ==
    SystemInstruction(useK8s) \o (IF ps = <<>> THEN <<>> ELSE Text(ps[Len(ps)]))

BuildPrompt(useK8s, ps) == SystemInstruction(useK8s) \o Concat(ps)

----------------------------------------------------------------------------
(* Errors: [kind, n]; n is the HTTP status or the candidate count *)

Nil == [kind |-> "nil", n |-> 0]
RequestError(status) == [kind |-> "RequestError", n |-> status]
APIError(status) == [kind |-> "APIError", n |-> status]
CtxCanceled == [kind |-> "context canceled", n |-> 0]
ChoicesError(k) == [kind |-> "expected choices to be 1 but received", n |-> k]
UnmarshalError == [kind |-> "json unmarshal", n |-> 0]
FetchError == [kind |-> "schema fetch", n |-> 0]
DecodeError == [kind |-> "schema decode", n |-> 0]
NoDefinitionsError == [kind |-> "unable to assert schema definitions", n |-> 0]
NoResourceSchemaError == [kind |-> "unable to assert resource schema", n |-> 0]
NotFoundError == [kind |-> "unable to find resource schema", n |-> 0]
PromptError == [kind |-> "prompt", n |-> 0]
ConfigError == [kind |-> "kube config", n |-> 0]
ApplyError == [kind |-> "apply", n |-> 0]

----------------------------------------------------------------------------
(* The schema collaborator *)

NL == "\n"

KeyPod == <<"P", "d">>
KeyPodSpec == <<"P", "d", "S">>
KeyOdd == <<"q">>

\* json.Unmarshal(body, &schema) results: no "definitions" map, or one of two
\* definition maps; a value is an object (with its JSON text) or not one
NoDefinitions == [hasDefinitions |-> FALSE, keys |-> {}, objects |-> {}]
DefinitionsA ==
    [hasDefinitions |-> TRUE, keys |-> {KeyPod, KeyPodSpec},
     objects |-> {KeyPod, KeyPodSpec}]
DefinitionsB ==
    [hasDefinitions |-> TRUE, keys |-> {KeyOdd}, objects |-> {}]

\* what fetchK8sSchema returns: [err, schema]
FetchOutcomes ==
    {[err |-> FetchError, schema |-> NoDefinitions],
     [err |-> DecodeError, schema |-> NoDefinitions],
     [err |-> Nil, schema |-> NoDefinitions],
     [err |-> Nil, schema |-> DefinitionsA],
     [err |-> Nil, schema |-> DefinitionsB]}

\* strings.ToLower on one character
LowerChar(c) == IF c = "P" THEN "p" ELSE IF c = "S" THEN "s" ELSE c

ToLower(s) == [i \in 1..Len(s) |-> LowerChar(s[i])]

\* json.Marshal of the resource schema: one opaque token per resource type
SchemaJSON(k) == <<"{schema}">> \o k

\* all orders in which a map iteration can yield the set S
Orders(S) ==
    {o \in [1..Cardinality(S) -> S] : \A x \in S : \E i \in DOMAIN o : o[i] = x}

\* strings.Join(names, "\n")
RECURSIVE Join(_)
Join(names) ==
    IF names = <<>> THEN <<>>
    ELSE IF Len(names) = 1 THEN Head(names)
    ELSE Head(names) \o <<NL>> \o Join(Tail(names))

\* a test that compares the key and the resource name as they are written
MatchesCaseSensitive(k, resourceName) == Contains(k, resourceName)

\* the test of fetchResourceNames' loop
Matches(k, resourceName) == Contains(ToLower(k), ToLower(resourceName))

\* fetchResourceNames: the set of possible results [names, err]
fetchResourceNames(resourceName, fetched) ==
    IF fetched.err # Nil THEN {[names |-> <<>>, err |-> fetched.err]}
    ELSE IF ~fetched.schema.hasDefinitions
         THEN {[names |-> <<>>, err |-> NoDefinitionsError]}
    ELSE {[names |-> o, err |-> Nil] :
            o \in Orders({k \in fetched.schema.keys : Matches(k, resourceName)})}

\* a fetchSchemaForResource that has an empty schema for an unknown type
fetchSchemaForResourceEmpty(resourceType, fetched) ==
    IF fetched.err # Nil THEN [schema |-> <<>>, err |-> fetched.err]
    ELSE IF ~fetched.schema.hasDefinitions
         THEN [schema |-> <<>>, err |-> NoDefinitionsError]
    ELSE IF resourceType \in fetched.schema.keys
         THEN IF resourceType \in fetched.schema.objects
              THEN [schema |-> SchemaJSON(resourceType), err |-> Nil]
              ELSE [schema |-> <<>>, err |-> NoResourceSchemaError]
    ELSE [schema |-> <<>>, err |-> Nil]

\* fetchSchemaForResource: [schema, err]
fetchSchemaForResource(resourceType, fetched) ==
    IF fetched.err # Nil THEN [schema |-> <<>>, err |-> fetched.err]
    ELSE IF ~fetched.schema.hasDefinitions
         THEN [schema |-> <<>>, err |-> NoDefinitionsError]
    ELSE IF resourceType \in fetched.schema.keys
         THEN IF resourceType \in fetched.schema.objects
              THEN [schema |-> SchemaJSON(resourceType), err |-> Nil]
              ELSE [schema |-> <<>>, err |-> NoResourceSchemaError]
    ELSE [schema |-> <<>>, err |-> NotFoundError]

----------------------------------------------------------------------------
(* The tool registry *)

\* the arguments JSON of a call: well-formed or not, the fields the object
\* has, and their values
Args(wf, has, resourceName, resourceType) ==
    [wf |-> wf, has |-> has, resourceName |-> resourceName,
     resourceType |-> resourceType]
Malformed == Args(FALSE, {}, <<>>, <<>>)
EmptyObject == Args(TRUE, {}, <<>>, <<>>)
WithResourceName(v) == Args(TRUE, {"resourceName"}, v, <<>>)
WithResourceType(v) == Args(TRUE, {"resourceType"}, <<>>, v)

\* json.Unmarshal into a struct: a field the object lacks keeps its zero value
Field(a, name) == IF name \in a.has THEN a[name] ELSE <<>>

\* schemaNames.Run: possible [content, err, fetches]
schemaNamesRun(resourceName, fetched) ==
    {[content |-> IF r.err = Nil THEN Join(r.names) ELSE <<>>,
      err |-> r.err, fetches |-> 1] :
        r \in fetchResourceNames(resourceName, fetched)}

\* a schema.Run that answers without fetching
schemaRunCached(resourceType, fetched) ==
    LET r == fetchSchemaForResource(resourceType, fetched)
    IN  {[content |-> r.schema, err |-> r.err, fetches |-> 0]}

\* schema.Run
schemaRun(resourceType, fetched) ==
    LET r == fetchSchemaForResource(resourceType, fetched)
    IN  {[content |-> r.schema, err |-> r.err, fetches |-> 1]}

\* an Unmarshal that reports no error for arguments that are not JSON
UnmarshalLenient(a) == Nil

\* the error of json.Unmarshal([]byte(call.Arguments), &f)
Unmarshal(a) == IF a.wf THEN Nil ELSE UnmarshalError

\* a funcCall that answers an undeclared name with an error
NoMatchingCaseError ==
    [content |-> <<>>, err |-> [kind |-> "unknown function", n |-> 0],
     fetches |-> 0]

\* funcCall's return after the switch: no case matched call.Name
NoMatchingCase == [content |-> <<>>, err |-> Nil, fetches |-> 0]

\* funcCall: the possible [content, err, fetches] of a call
funcCall(c, fetched) ==
    IF c.name = findSchemaNamesName
    THEN IF Unmarshal(c.args) # Nil
         THEN {[content |-> <<>>, err |-> Unmarshal(c.args), fetches |-> 0]}
         ELSE schemaNamesRun(Field(c.args, "resourceName"), fetched)
    ELSE IF c.name = getSchemaName
    THEN IF Unmarshal(c.args) # Nil
         THEN {[content |-> <<>>, err |-> Unmarshal(c.args), fetches |-> 0]}
         ELSE schemaRun(Field(c.args, "resourceType"), fetched)
    ELSE {NoMatchingCase}

----------------------------------------------------------------------------
(* The provider *)

\* resp.Choices[0].Message.FunctionCall == nil
NoCall == [name |-> "nil", args |-> Malformed]

\* the tool calls the provider may ask for
ToolCalls ==
    {[name |-> findSchemaNamesName, args |-> WithResourceName(<<"p", "d">>)],
     [name |-> findSchemaNamesName, args |-> WithResourceName(<<"z">>)],
     [name |-> findSchemaNamesName, args |-> EmptyObject],
     [name |-> findSchemaNamesName, args |-> Malformed],
     [name |-> getSchemaName, args |-> WithResourceType(KeyPod)],
     [name |-> getSchemaName, args |-> WithResourceType(<<"z">>)],
     [name |-> getSchemaName, args |-> EmptyObject],
     [name |-> getSchemaName, args |-> Malformed],
     [name |-> "deleteAll", args |-> WithResourceName(<<"p", "d">>)]}

\* the texts the provider may answer with
PlainText == <<"kind: Pod">>
FencedText == FenceYaml \o <<NL, "kind: Pod", NL>> \o Fence
Texts == {PlainText, FencedText}

TextChoice(t) == [fc |-> NoCall, text |-> t]
CallChoice(c) == [fc |-> c, text |-> <<>>]

\* the errors a provider call may return while ctx is live
ProviderErrors ==
    {RequestError(StatusTooManyRequests), RequestError(500),
     APIError(StatusTooManyRequests)}

\* what one provider call may return: [err, choices].  A chat response may
\* carry a tool call while the provider has tool calls left to make.
ProviderResponses(chat, toolsLeft) ==
    LET firsts == {TextChoice(t) : t \in Texts}
                  \cup (IF chat /\ toolsLeft
                        THEN {CallChoice(c) : c \in ToolCalls} ELSE {})
    IN  {[err |-> e, choices |-> <<>>] : e \in ProviderErrors}
        \cup {[err |-> Nil, choices |-> <<>>]}
        \cup {[err |-> Nil, choices |-> <<c>>] : c \in firsts}
        \cup {[err |-> Nil, choices |-> <<c, TextChoice(PlainText)>>] : c \in firsts}

\* a provider call made with a cancelled ctx returns the context's error
CancelledResponse == [err |-> CtxCanceled, choices |-> <<>>]

----------------------------------------------------------------------------
(* The retry policy of gptCompletion *)

\* a classification that also retries a failed schema fetch
IsRetryableOrFetch(e) ==
    \/ e.kind = "RequestError" /\ e.n = StatusTooManyRequests
    \/ e.kind = "schema fetch"

\* a classification that retries every request error, whatever its status
IsRetryableAnyStatus(e) == e.kind = "RequestError"

\* the classification at completion.go:89-95
IsRetryable(e) == e.kind = "RequestError" /\ e.n = StatusTooManyRequests

\* a backoff that counts attempts, not retries: it stops one retry earlier
BackoffStopEarly(used) == used >= MaxRetries - 1

\* a backoff that stops one retry later
BackoffStopLate(used) == used > MaxRetries

\* retry.WithMaxRetries(10, ...): the backoff stops once 10 retries were given
BackoffStop(used) == used >= MaxRetries

\* retry.NewConstant(1s): the same delay every time
ExponentialNextConstant(n) == BackoffBase

\* retry.NewExponential(1s): the n-th delay it hands out, in seconds
ExponentialNext(n) == BackoffBase * 2 ^ (n - 1)

\* slices.Contains(getNonChatModels(), deploymentName)
IsNonChat(deploymentName) == deploymentName \in getNonChatModels

\* a fnCallType that is auto whatever the switch
FnCallTypeAuto(useK8s) == fnCallAuto

\* fnCallType of openaiGptChatCompletion
FnCallType(useK8s) == IF useK8s THEN fnCallAuto ELSE fnCallNone

NoRequest ==
    [shape |-> "none", transcript |-> <<>>, functions |-> <<>>,
     functionCall |-> "none"]

\* openai.ChatCompletionRequest of openaiGptChatCompletion
ChatRequest(transcript, useK8s) ==
    [shape |-> "chat", transcript |-> transcript,
     functions |-> DeclaredFunctions, functionCall |-> FnCallType(useK8s)]

\* openai.CompletionRequest of openaiGptCompletion
CompletionRequest(transcript) ==
    [shape |-> "completion", transcript |-> transcript, functions |-> <<>>,
     functionCall |-> "none"]

\* what the history keeps of a provider response: its error, its number of
\* candidates and the text of the first one
Received(r) ==
    [err |-> r.err, n |-> Len(r.choices),
     text |-> IF Len(r.choices) = 0 THEN <<>> ELSE r.choices[1].text,
     received |-> TRUE]

\* no provider response yet
NoResponse == [err |-> Nil, n |-> 0, text |-> <<>>, received |-> FALSE]

\* what the history keeps of a call of funcCall: the name called, what
\* funcCall returned, and the error and the schema of the fetch it made,
\* if any
Dispatched(c, r, fetched) ==
    [name |-> c.name, content |-> r.content, err |-> r.err,
     fetches |-> r.fetches,
     fetchErr |-> IF r.fetches = 0 THEN Nil ELSE fetched.err,
     schema |-> IF r.fetches = 0 THEN NoDefinitions ELSE fetched.schema]

NoTool ==
    [name |-> "nil", content |-> <<>>, err |-> Nil, fetches |-> 0,
     fetchErr |-> Nil, schema |-> NoDefinitions]

\* what no step of the program changes
fixed == <<flags, subject, trimmed, lookup, found>>

driverVars ==
    <<dpc, args, action, completion, exitCode, applied, reprompts, choice,
      printed>>
retryVars == <<retries, wait, rateLimited>>
toolHistory == <<toolDispatches, schemaFetches, lastTool, toolResults>>
requestHistory == <<providerCalls, lastReq, lastResp>>

\* The retried function returns (text, e) and retry.Do decides: nil ends the
\* invocation with the text; an error that is not retryable ends it with that
\* error; a retryable one is returned when the backoff has stopped, and is
\* followed by a wait otherwise (completion.go:80-105).
FunctionReturns(text, e) ==
    /\ attemptErr' = e
    /\ IF e = Nil
       THEN /\ ipc' = "done" /\ resp' = text /\ err' = Nil
            /\ UNCHANGED retryVars
       ELSE IF ~IsRetryable(e)
       THEN /\ ipc' = "failed" /\ resp' = <<>> /\ err' = e
            /\ UNCHANGED retryVars
       ELSE IF BackoffStop(retries)
       THEN /\ ipc' = "failed" /\ resp' = <<>> /\ err' = e
            /\ rateLimited' = rateLimited + 1
            /\ UNCHANGED <<retries, wait>>
       ELSE /\ ipc' = "backoff" /\ retries' = retries + 1
            /\ wait' = ExponentialNext(retries + 1)
            /\ rateLimited' = rateLimited + 1
            /\ UNCHANGED <<resp, err>>

\* a test that takes every first candidate for a function call
HasFunctionCallAlways(c) == TRUE

\* the test of the first candidate: funcName != nil
HasFunctionCall(c) == c.fc # NoCall

\* a loop that gives up after its first tool call
ForConditionOnce(dispatches) == dispatches < 1

\* the condition of openaiGptChatCompletion's for loop, given the tool calls
\* made so far: the loop has no condition
ForCondition(dispatches) == TRUE

\* openaiGptChatCompletion after its loop, with n candidates in resp and the
\* content of the first: the candidate count check, then the stripped text
AfterLoop(n, first) ==
    IF n # 1 THEN FunctionReturns(<<>>, ChoicesError(n))
    ELSE FunctionReturns(trimTicks(first), Nil)

----------------------------------------------------------------------------
(* Init *)

DeploymentNames == {"gpt-3.5-turbo-0301", "text-davinci-003", "code-davinci-002"}

Flags ==
    [openAIAPIKey : {"", "sk"}, openAIDeploymentName : DeploymentNames,
     usek8sAPI : BOOLEAN, requireConfirmation : BOOLEAN, raw : BOOLEAN]

\* the state of a run before InitAndExecute, flags and arguments apart
Start ==
    /\ cancelled = FALSE
    /\ dpc = "init"
    /\ action = ""
    /\ completion = <<>>
    /\ exitCode = -1
    /\ applied = <<>>
    /\ ipc = "idle"
    /\ prompt = <<>>
    /\ content = <<>>
    /\ call = NoCall
    /\ resp = <<>>
    /\ err = Nil
    /\ retries = 0
    /\ wait = 0
    /\ attempts = 0
    /\ providerCalls = 0
    /\ toolDispatches = 0
    /\ schemaFetches = 0
    /\ toolCallsSeen = 0
    /\ rateLimited = 0
    /\ lastReq = NoRequest
    /\ lastTool = NoTool
    /\ reprompts = 0
    /\ attemptErr = Nil
    /\ lastResp = NoResponse
    /\ choice = "none"
    /\ cancelSeen = "never"
    /\ toolResults = <<>>
    /\ printed = <<>>

\* no lookup is being tried
NoLookup == [resourceName |-> <<>>, fetched |-> [err |-> Nil, schema |-> NoDefinitions]]

Init ==
    /\ flags \in Flags
    /\ args \in {<<>>, <<"make a pod">>}
    /\ subject = <<>>
    /\ trimmed = <<>>
    /\ lookup = NoLookup
    /\ found = <<>>
    /\ Start

\* the texts trimTicks is tried on: up to MaxPieces pieces, each a backtick,
\* a fence, or a part of the word after the fence
Pieces == {<<Tick>>, Fence, <<"y", "a">>, <<"m", "l">>, <<"x">>}

RECURSIVE Flatten(_)
Flatten(ps) == IF ps = <<>> THEN <<>> ELSE Head(ps) \o Flatten(Tail(ps))

TrimInputs ==
    {Flatten(ps) : ps \in UNION {[1..n -> Pieces] : n \in 0..MaxPieces}}

\* a run that only strips a text
TrimInit ==
    /\ flags \in {f \in Flags : f.openAIAPIKey = "" /\ ~f.usek8sAPI /\ ~f.raw
                                /\ f.requireConfirmation
                                /\ f.openAIDeploymentName = "gpt-3.5-turbo-0301"}
    /\ args = <<>>
    /\ subject \in TrimInputs
    /\ trimmed = <<>>
    /\ lookup = NoLookup
    /\ found = <<>>
    /\ Start

\* the resource names findSchemaNames is tried on
QueryChars == {"P", "p", "d", "S", "s", "q"}

Queries == UNION {[1..n -> QueryChars] : n \in 0..MaxQuery}

\* the keys a fetched definitions map is made of
KeyLower == <<"d", "s">>
SchemaKeys == {KeyPod, KeyPodSpec, KeyOdd, KeyLower}

\* the fetches findSchemaNames is tried on: a failed one, a document without
\* definitions, and one definitions map per set of keys
Fetches ==
    {f \in FetchOutcomes : f.schema = NoDefinitions}
    \cup {[err |-> Nil,
           schema |-> [hasDefinitions |-> TRUE, keys |-> K, objects |-> K]] :
            K \in SUBSET SchemaKeys}

\* a run that only looks resource names up
NamesInit ==
    /\ flags \in {f \in Flags : f.openAIAPIKey = "" /\ ~f.usek8sAPI /\ ~f.raw
                                /\ f.requireConfirmation
                                /\ f.openAIDeploymentName = "gpt-3.5-turbo-0301"}
    /\ args = <<>>
    /\ subject = <<>>
    /\ trimmed = <<>>
    /\ lookup \in [resourceName : Queries, fetched : Fetches]
    /\ found = <<>>
    /\ Start

----------------------------------------------------------------------------------------------------------------------------------------
(* The completion loop: gptCompletion, retry.Do and the two call shapes *)

invocationVars ==
    <<ipc, prompt, content, call, resp, err, retries, wait, attempts,
      providerCalls, toolDispatches, schemaFetches, toolCallsSeen, rateLimited,
      lastReq, lastTool, attemptErr, lastResp, toolResults>>

\* positions: "top" retry.Do's loop head, "request" the first pass of the
\* retried function, "followup" a later pass of openaiGptChatCompletion's
\* loop, "tool" funcCall in progress, "backoff" retry.Do's wait
Running ==
    dpc = "completing" /\ ipc \in {"top", "request", "followup", "tool", "backoff"}

Ended == ipc \in {"done", "failed", "panicked"}

\* retry.Do's loop head: a done ctx ends the invocation with ctx.Err(),
\* otherwise the retried function is called once more
DoAttempt ==
    /\ dpc = "completing" /\ ipc = "top"
    /\ IF cancelled
       THEN /\ ipc' = "failed" /\ err' = CtxCanceled /\ resp' = <<>>
            /\ UNCHANGED <<attempts, content>>
       ELSE /\ ipc' = "request" /\ attempts' = attempts + 1
            /\ content' = <<>>
            /\ UNCHANGED <<resp, err>>
    /\ UNCHANGED <<fixed, cancelled, driverVars, prompt, call, retryVars,
                   toolCallsSeen, toolHistory, requestHistory, attemptErr,
                   cancelSeen>>

\* openaiGptCompletion: one request, the candidate count check, the text
PlainCompletion ==
    /\ dpc = "completing" /\ ipc = "request"
    /\ IsNonChat(flags.openAIDeploymentName)
    /\ providerCalls' = providerCalls + 1
    /\ lastReq' = CompletionRequest(prompt)
    /\ \E r \in (IF cancelled THEN {CancelledResponse}
                 ELSE ProviderResponses(FALSE, FALSE)) :
         /\ lastResp' = Received(r)
         /\ IF r.err # Nil THEN FunctionReturns(<<>>, r.err)
            ELSE IF Len(r.choices) # 1
            THEN FunctionReturns(<<>>, ChoicesError(Len(r.choices)))
            ELSE FunctionReturns(r.choices[1].text, Nil)
    /\ UNCHANGED <<fixed, cancelled, driverVars, prompt, content, call,
                   attempts, toolCallsSeen, toolHistory, cancelSeen>>

\* One pass of openaiGptChatCompletion's loop up to the provider's answer:
\* the pending content is appended, the request is sent, and the answer either
\* ends the call or names a function to call.  Choices[0] of an empty list is
\* an index-out-of-range panic.
ChatCompletion ==
    /\ dpc = "completing" /\ ipc \in {"request", "followup"}
    /\ ~IsNonChat(flags.openAIDeploymentName)
    /\ prompt' = WriteString(prompt, content)
    /\ providerCalls' = providerCalls + 1
    /\ lastReq' = ChatRequest(prompt', flags.usek8sAPI)
    /\ \E r \in (IF cancelled THEN {CancelledResponse}
                 ELSE ProviderResponses(TRUE, toolCallsSeen < MaxToolCalls)) :
         /\ lastResp' = Received(r)
         /\ IF r.err # Nil
            THEN /\ FunctionReturns(<<>>, r.err)
                 /\ UNCHANGED <<call, toolCallsSeen>>
            ELSE IF Len(r.choices) = 0
            THEN /\ ipc' = "panicked"
                 /\ UNCHANGED <<resp, err, retryVars, call, toolCallsSeen,
                                attemptErr>>
            ELSE IF HasFunctionCall(r.choices[1])
            THEN /\ ipc' = "tool" /\ call' = r.choices[1].fc
                 /\ toolCallsSeen' = toolCallsSeen + 1
                 /\ UNCHANGED <<resp, err, retryVars, attemptErr>>
            ELSE /\ AfterLoop(Len(r.choices), r.choices[1].text)
                 /\ UNCHANGED <<call, toolCallsSeen>>
    /\ UNCHANGED <<fixed, cancelled, driverVars, content, attempts,
                   toolHistory, cancelSeen>>

\* funcCall returns: its content is the next pass's pending content, its
\* error ends the call of openaiGptChatCompletion; the loop goes round
\* whatever the number of passes made
ToolReturns ==
    /\ dpc = "completing" /\ ipc = "tool"
    /\ \E fetched \in FetchOutcomes : \E r \in funcCall(call, fetched) :
         /\ toolDispatches' = toolDispatches + 1
         /\ schemaFetches' = schemaFetches + r.fetches
         /\ lastTool' = Dispatched(call, r, fetched)
         /\ toolResults' = toolResults \o r.content
         /\ IF r.err # Nil
            THEN FunctionReturns(<<>>, r.err) /\ UNCHANGED content
            ELSE IF ForCondition(toolDispatches')
            THEN /\ ipc' = "followup" /\ content' = r.content
                 /\ UNCHANGED <<resp, err, retryVars, attemptErr>>
            ELSE AfterLoop(lastResp.n, lastResp.text) /\ content' = r.content
    /\ call' = NoCall
    /\ UNCHANGED <<fixed, cancelled, driverVars, prompt, attempts,
                   toolCallsSeen, requestHistory, cancelSeen>>

\* retry.Do's wait: the timer fires and the loop goes round
BackoffElapsed ==
    /\ dpc = "completing" /\ ipc = "backoff"
    /\ ipc' = "top"
    /\ UNCHANGED <<fixed, cancelled, driverVars, prompt, content, call, resp,
                   err, retryVars, attempts, toolCallsSeen, toolHistory,
                   requestHistory, attemptErr, cancelSeen>>

\* retry.Do's wait: ctx is done, the wait ends with ctx.Err()
BackoffInterrupted ==
    /\ dpc = "completing" /\ ipc = "backoff"
    /\ cancelled
    /\ ipc' = "failed" /\ err' = CtxCanceled /\ resp' = <<>>
    /\ UNCHANGED <<fixed, cancelled, driverVars, prompt, content, call,
                   retryVars, attempts, toolCallsSeen, toolHistory,
                   requestHistory, attemptErr, cancelSeen>>

\* the process receives os.Interrupt: ctx of run is done from now on
Cancel ==
    /\ dpc \in {"loop", "completing", "prompting"}
    /\ ~cancelled
    /\ cancelled' = TRUE
    /\ cancelSeen' = IF Running THEN ipc ELSE "outside"
    /\ UNCHANGED <<fixed, driverVars, invocationVars>>

----------------------------------------------------------------------------
(* The driver: InitAndExecute, RootCmd's RunE, run, userActionPrompt *)

RepromptTexts == {"use two replicas"}

\* what promptui's SelectWithAdd.Run gives back: [result, err]
PromptResults ==
    {[result |-> a, err |-> Nil] : a \in {apply, dontApply} \cup RepromptTexts}
    \cup {[result |-> "", err |-> PromptError]}

\* a userActionPrompt that answers a failed prompt with Apply and no error
userActionPromptApplyOnError(requireConfirmation, pr) ==
    IF ~requireConfirmation \/ pr.err # Nil THEN [action |-> apply, err |-> Nil]
    ELSE [action |-> pr.result, err |-> Nil]

\* userActionPrompt, given what the prompt gives back: [action, err]
userActionPrompt(requireConfirmation, pr) ==
    IF ~requireConfirmation THEN [action |-> apply, err |-> Nil]
    ELSE IF pr.err # Nil THEN [action |-> dontApply, err |-> pr.err]
    ELSE [action |-> pr.result, err |-> Nil]

\* an append that keeps only the action
appendActionOnly(a, act) == <<act>>

\* args = append(args, action)
appendAction(a, act) == Append(a, act)

\* the guard of run's loop
LoopContinues(a) == a # apply

\* a check that lets a command without a prompt through
noPromptNever(a) == FALSE

\* RunE's check: len(args) == 0
noPrompt(a) == Len(a) = 0

\* InitAndExecute and RunE up to the call of run: an empty API key and a
\* missing prompt end the process with status 1
InitAndExecute ==
    /\ dpc = "init"
    /\ IF flags.openAIAPIKey = "" \/ noPrompt(args)
       THEN dpc' = "exit" /\ exitCode' = 1
       ELSE dpc' = "loop" /\ UNCHANGED exitCode
    /\ UNCHANGED <<fixed, cancelled, args, action, completion, applied,
                   reprompts, choice, printed, invocationVars, cancelSeen>>

\* run's loop body up to the call of gptCompletion, and gptCompletion up to
\* retry.Do: the action is appended to args and the prompt is built afresh
StartCompletion ==
    /\ dpc = "loop"
    /\ LoopContinues(action)
    /\ args' = appendAction(args, action)
    /\ prompt' = BuildPrompt(flags.usek8sAPI, args')
    /\ dpc' = "completing"
    /\ ipc' = "top"
    /\ content' = <<>> /\ call' = NoCall /\ resp' = <<>> /\ err' = Nil
    /\ retries' = 0 /\ wait' = 0
    /\ attempts' = 0 /\ providerCalls' = 0 /\ toolDispatches' = 0
    /\ schemaFetches' = 0 /\ toolCallsSeen' = 0 /\ rateLimited' = 0
    /\ lastReq' = NoRequest /\ lastTool' = NoTool /\ toolResults' = <<>>
    /\ attemptErr' = Nil /\ lastResp' = NoResponse
    /\ cancelSeen' = IF cancelled THEN "outside" ELSE "never"
    /\ UNCHANGED <<fixed, cancelled, action, completion, exitCode, applied,
                   reprompts, choice, printed>>

\* a run that keeps the first completion it got
completionKeepFirst(previous, returned) ==
    IF previous = <<>> THEN returned ELSE previous

\* completion, err = gptCompletion(...): run's completion after the call
completionAssigned(previous, returned) == returned

\* a run that goes on whatever gptCompletion's error
ReturnsErrorNever(e) == FALSE

\* run's check of gptCompletion's error: if err != nil { return err }
ReturnsError(e) == e # Nil

\* gptCompletion has returned to run: an error ends run with it, raw output
\* is printed and ends run, otherwise the manifest is shown.  A panic ends
\* the process with status 2.
CompletionReturns ==
    /\ dpc = "completing"
    /\ Ended
    /\ IF ipc = "panicked"
       THEN dpc' = "exit" /\ exitCode' = 2 /\ UNCHANGED <<completion, printed>>
       ELSE IF ReturnsError(err)
       THEN /\ dpc' = "exit" /\ exitCode' = 1
            /\ completion' = completionAssigned(completion, resp)
            /\ UNCHANGED printed
       ELSE IF flags.raw
       THEN /\ dpc' = "exit" /\ exitCode' = 0
            /\ completion' = completionAssigned(completion, resp)
            /\ printed' = Append(printed, completion')
       ELSE /\ dpc' = "prompting" /\ UNCHANGED exitCode
            /\ completion' = completionAssigned(completion, resp)
            /\ printed' = Append(printed, completion')
    /\ UNCHANGED <<fixed, cancelled, args, action, applied, reprompts, choice,
                   invocationVars, cancelSeen>>

\* userActionPrompt and what run does with the action
UserAction ==
    /\ dpc = "prompting"
    /\ \E pr \in PromptResults :
         LET r == userActionPrompt(flags.requireConfirmation, pr)
         IN  /\ action' = r.action
             /\ choice' = IF ~flags.requireConfirmation THEN "skipped"
                          ELSE IF pr.err # Nil THEN "error" ELSE pr.result
             /\ IF r.err # Nil
                THEN dpc' = "exit" /\ exitCode' = 1 /\ UNCHANGED reprompts
                ELSE IF r.action = dontApply
                THEN dpc' = "exit" /\ exitCode' = 0 /\ UNCHANGED reprompts
                ELSE IF ~LoopContinues(r.action)
                THEN dpc' = "applying" /\ UNCHANGED <<exitCode, reprompts>>
                ELSE /\ reprompts < MaxReprompts
                     /\ dpc' = "loop" /\ reprompts' = reprompts + 1
                     /\ UNCHANGED exitCode
    /\ UNCHANGED <<fixed, cancelled, args, completion, applied, printed,
                   invocationVars, cancelSeen>>

\* What applyManifest meets: the error of building its clients, and the
\* documents of the manifest in order.  A document is "applied" (it decodes
\* and every later step succeeds), "undecodable" (decoder.Decode gives an
\* error) or "failed" (it decodes and a later step, down to dri.Apply, gives
\* an error).
DocKinds == {"applied", "undecodable", "failed"}

Manifests == UNION {[1..n -> DocKinds] : n \in 0..MaxDocs}

Clusters ==
    {[setup |-> ConfigError, docs |-> <<>>]}
    \cup {[setup |-> Nil, docs |-> d] : d \in Manifests}

\* applyManifest's loop on the documents left, count of them applied so far:
\* the end of the manifest and a decode error both leave the loop, and nil
\* is returned; an error of a later step is returned at once
\* a loop that remembers the error of a failed document and goes on
RECURSIVE applyLoopGoesOn(_, _)
applyLoopGoesOn(docs, count) ==
    IF docs = <<>> THEN [count |-> count, err |-> Nil, undecoded |-> FALSE]
    ELSE IF Head(docs) = "undecodable"
    THEN [count |-> count, err |-> Nil, undecoded |-> TRUE]
    ELSE IF Head(docs) = "failed"
    THEN [applyLoopGoesOn(Tail(docs), count) EXCEPT !.err = ApplyError]
    ELSE applyLoopGoesOn(Tail(docs), count + 1)

RECURSIVE applyLoop(_, _)
applyLoop(docs, count) ==
    IF docs = <<>> THEN [count |-> count, err |-> Nil, undecoded |-> FALSE]
    ELSE IF Head(docs) = "undecodable"
    THEN [count |-> count, err |-> Nil, undecoded |-> TRUE]
    ELSE IF Head(docs) = "failed"
    THEN [count |-> count, err |-> ApplyError, undecoded |-> FALSE]
    ELSE applyLoop(Tail(docs), count + 1)

\* applyManifest: [count, err, undecoded]
applyManifest(cluster) ==
    IF cluster.setup # Nil
    THEN [count |-> 0, err |-> cluster.setup, undecoded |-> FALSE]
    ELSE applyLoop(cluster.docs, 0)

\* return applyManifest(completion), up to the process's exit
ApplyManifest ==
    /\ dpc = "applying"
    /\ \E cluster \in Clusters :
         LET r == applyManifest(cluster)
         IN  /\ applied' = Append(applied, [manifest |-> completion,
                                            docs |-> cluster.docs,
                                            result |-> r])
             /\ exitCode' = IF r.err = Nil THEN 0 ELSE 1
    /\ dpc' = "exit"
    /\ UNCHANGED <<fixed, cancelled, args, action, completion, reprompts, printed,
                   choice, invocationVars, cancelSeen>>

----------------------------------------------------------------------------
(* trimTicks on its own *)

\* result = trimTicks(result), on the text or on what the last call gave
TrimTicks ==
    /\ Len(trimmed) < 2
    /\ trimmed' =
         Append(trimmed,
                trimTicks(IF trimmed = <<>> THEN subject
                          ELSE trimmed[Len(trimmed)]))
    /\ UNCHANGED <<flags, subject, lookup, found, cancelled, driverVars,
                   invocationVars, cancelSeen>>

\* schemaNames.Run applied to a resource name, over a fetched schema
FindSchemaNames ==
    /\ found = <<>>
    /\ \E r \in schemaNamesRun(lookup.resourceName, lookup.fetched) :
         found' = <<r>>
    /\ UNCHANGED <<flags, subject, trimmed, lookup, cancelled, driverVars,
                   invocationVars, cancelSeen>>

----------------------------------------------------------------------------
(* Specifications *)

\* the steps of the program itself
Step ==
    \/ InitAndExecute
    \/ StartCompletion
    \/ DoAttempt
    \/ PlainCompletion
    \/ ChatCompletion
    \/ ToolReturns
    \/ BackoffElapsed
    \/ BackoffInterrupted
    \/ CompletionReturns
    \/ UserAction
    \/ ApplyManifest

Next == Step \/ Cancel

Spec == Init /\ [][Next]_vars

\* every external call returns and the process keeps being scheduled
FairSpec == Spec /\ WF_vars(Step)

TrimNext == TrimTicks

\* trimTicks applied, and applied again, to each text of TrimInputs
TrimSpec == TrimInit /\ [][TrimNext]_vars

NamesNext == FindSchemaNames

\* findSchemaNames applied to each resource name and each fetch
NamesSpec == NamesInit /\ [][NamesNext]_vars

----------------------------------------------------------------------------
(* Properties *)

RateLimit == RequestError(StatusTooManyRequests)

\* every provider call of the invocation so far failed with the rate-limit
\* error, and ctx was not cancelled
AllRateLimited == providerCalls > 0 /\ rateLimited = providerCalls /\ ~cancelled

\* C1, as claimed: an invocation in which every provider call fails with the
\* rate-limit error attempts the completion exactly 10 times and then returns
\* that error.
C1_TenAttempts ==
    (Ended /\ AllRateLimited) =>
        (attempts = 10 /\ ipc = "failed" /\ err = RateLimit)

\* C1, amended: an invocation in which every provider call fails with the
\* rate-limit error attempts the completion exactly 11 times (a first attempt
\* and 10 retries), never more and never fewer, and then returns that error.
C1_ElevenAttempts ==
    /\ attempts <= 11
    /\ (Ended /\ AllRateLimited) =>
           (attempts = 11 /\ providerCalls = 11 /\ ipc = "failed"
            /\ err = RateLimit)

C1_Witness ==
    /\ ipc = "failed" /\ err = RateLimit
    /\ attempts = 11 /\ providerCalls = 11 /\ rateLimited = 11 /\ ~cancelled

\* C2: an attempt's error that is not a request error with status 429 ends
\* the invocation at once with that same error (no further attempt, no
\* further provider call), and a new attempt follows a failed attempt only
\* when that attempt failed with status 429.
C2_FatalEndsAtOnce ==
    /\ [](attemptErr \notin {Nil, RateLimit} =>
            (ipc = "failed" /\ err = attemptErr))
    /\ [][/\ (attemptErr \notin {Nil, RateLimit} =>
                (attempts' = attempts /\ providerCalls' = providerCalls))
          /\ ((attempts' = attempts + 1 /\ attempts >= 1) =>
                attemptErr = RateLimit)]_vars

C2_Witness ==
    /\ ipc = "failed" /\ attempts = 3 /\ providerCalls = 3
    /\ attemptErr = RequestError(500) /\ err = RequestError(500)

DeclaredNames == {"findSchemaNames", "getSchema"}

\* C4: after a tool-call response the loop runs the tool before any other
\* provider request, and when a declared tool succeeded the next provider
\* request carries the previous request's transcript followed by the tool's
\* result text.
C4_ToolResultAppended ==
    [][/\ (ipc = "tool" => providerCalls' = providerCalls)
       /\ ((ipc = "tool" /\ ipc' # "tool") =>
             toolDispatches' = toolDispatches + 1)
       /\ ((/\ ipc = "followup" /\ providerCalls' = providerCalls + 1
            /\ lastTool.name \in DeclaredNames /\ lastTool.err = Nil) =>
             (/\ lastReq'.shape = "chat"
              /\ lastReq'.transcript = lastReq.transcript \o lastTool.content))]_vars

C4_Witness ==
    /\ toolDispatches = 1 /\ providerCalls = 2
    /\ lastTool.name = "findSchemaNames" /\ lastTool.err = Nil
    /\ lastTool.content = <<"P", "d", "\n", "P", "d", "S">>
    /\ lastReq.transcript =
         <<"SYS-K8S", "make a pod", "P", "d", "\n", "P", "d", "S">>

FinalText == lastResp.text

\* the invocation ended with a text and met no error
DoneWithoutError == ipc = "done" /\ rateLimited = 0

\* C5, as claimed: n tool-call responses and then a final text, with no
\* errors, make n+1 provider calls and n tool dispatches, and the final text
\* is what the loop returns.
C5_ReturnsFinalText ==
    DoneWithoutError =>
        (/\ providerCalls = toolCallsSeen + 1
         /\ toolDispatches = toolCallsSeen
         /\ resp = FinalText)

\* the final text as the call shape hands it back: the chat shape without
\* its code-fence markers, the plain shape as received
ExpectedResult ==
    IF lastReq.shape = "chat" /\ FinalText = FencedText
    THEN <<"\n", "kind: Pod", "\n">>
    ELSE FinalText

\* C5, amended: n tool-call responses and then a final text, with no errors,
\* make n+1 provider calls and n tool dispatches; the loop returns the final
\* text, on the chat shape with its code-fence markers stripped; no provider
\* call follows the final text.
C5_ReturnsStrippedFinalText ==
    /\ [](DoneWithoutError =>
            (/\ providerCalls = toolCallsSeen + 1
             /\ toolDispatches = toolCallsSeen
             /\ resp = ExpectedResult))
    /\ [][ipc = "done" => (providerCalls' = providerCalls \/ ipc' = "top")]_vars

C5_Witness ==
    /\ DoneWithoutError
    /\ toolCallsSeen = 1 /\ providerCalls = 2 /\ toolDispatches = 1
    /\ FinalText = FencedText /\ resp = <<"\n", "kind: Pod", "\n">>

\* C6, as claimed: an invocation during which ctx was cancelled ends with
\* the cancellation error.
C6_CancelledEndsCancelled ==
    (cancelSeen \in {"top", "request", "followup", "tool", "backoff"} /\ Ended) =>
        (ipc = "failed" /\ err = CtxCanceled)

\* C7: a manifest is handed to applyManifest only after the action Apply
\* (chosen by the user, or given without a prompt when confirmation is not
\* required), after a completion that succeeded, and never in raw mode,
\* after Don't Apply or after a failed prompt.
C7_AppliedOnlyAfterApply ==
    applied # <<>> =>
        (/\ Len(applied) = 1
         /\ ~flags.raw
         /\ ipc = "done"
         /\ \/ choice = "Apply"
            \/ (choice = "skipped" /\ ~flags.requireConfirmation))

C7_Witness ==
    /\ applied # <<>> /\ choice = "Apply" /\ flags.requireConfirmation
    /\ reprompts = 1

\* C8: with a deployment name of the non-chat set every request has the
\* plain-completion shape and carries no tool definitions, no tool is
\* dispatched, and each attempt makes exactly one provider call, whatever
\* the tools-enabled switch.
C8_NonChatIsPlain ==
    flags.openAIDeploymentName \in {"text-davinci-003", "code-davinci-002"} =>
        (/\ lastReq.shape \in {"none", "completion"}
         /\ lastReq.functions = <<>>
         /\ toolDispatches = 0 /\ schemaFetches = 0
         /\ providerCalls = IF ipc = "request" THEN attempts - 1 ELSE attempts)

C8_Witness ==
    /\ flags.openAIDeploymentName = "text-davinci-003" /\ flags.usek8sAPI
    /\ ipc = "done" /\ attempts = 3 /\ providerCalls = 3
    /\ lastReq.shape = "completion"

\* C9, as claimed: a provider call that follows an earlier provider call of
\* the invocation is submitted with the full budget of retries, whatever
\* rate-limit failures the earlier calls met.
C9_FullBudgetPerCall == ipc = "followup" => retries = 0

\* C9, amended: the retry cap applies to the invocation as a whole: every
\* rate-limit failure of any of its provider calls uses up one of its 10
\* retries, and it fails with the rate-limit error at its 11th rate-limit
\* failure, whichever provider calls those failures hit.
C9_SharedBudget ==
    /\ retries <= 10 /\ rateLimited <= 11
    /\ Running => rateLimited = retries
    /\ (ipc = "failed" /\ err = RateLimit) =>
           (rateLimited = 11 /\ retries = 10)

C9_Witness ==
    /\ ipc = "failed" /\ err = RateLimit /\ rateLimited = 11
    /\ toolDispatches = 2 /\ providerCalls > attempts

\* C10, as claimed: every invocation eventually ends Done or Failed.
C10_EndsDoneOrFailed ==
    (dpc = "completing") ~> (ipc \in {"done", "failed"})

\* With the panic counted as an end, every invocation does end.
InvocationEnds == (dpc = "completing") ~> Ended

\* C11: the loop has no cap on tool calls.  A tool-call response always
\* leads to a tool dispatch, a tool that succeeded always leads back to the
\* loop (never to Done or Failed), whatever the number of tool calls made so
\* far, and the loop then leaves that point only by a further provider call.
C11_NoCapOnToolCalls ==
    [][/\ (toolCallsSeen' = toolCallsSeen + 1 => ipc' = "tool")
       /\ ((toolDispatches' = toolDispatches + 1 /\ lastTool'.err = Nil) =>
             (ipc' = "followup" /\ toolDispatches' = toolCallsSeen'))
       /\ ((ipc = "followup" /\ ipc' # "followup") =>
             providerCalls' = providerCalls + 1)]_vars

\* as many tool calls as the provider asks for, each followed by a request
C11_Witness ==
    /\ ipc = "followup" /\ toolDispatches = MaxToolCalls
    /\ providerCalls = MaxToolCalls /\ rateLimited = 0 /\ ~cancelled
    /\ lastTool.err = Nil

\* C12: a tool call that names an undeclared tool gives empty content and no
\* error, fetches no schema, and sends the loop round: the next provider
\* request carries the transcript of the request before it.
C12_UnknownToolIsSilent ==
    [][/\ ((/\ ipc = "tool" /\ call.name \notin DeclaredNames
            /\ toolDispatches' = toolDispatches + 1) =>
             (/\ lastTool'.content = <<>> /\ lastTool'.err = Nil
              /\ schemaFetches' = schemaFetches
              /\ ipc' = "followup"))
       /\ ((/\ ipc = "followup" /\ lastTool.name \notin DeclaredNames
            /\ providerCalls' = providerCalls + 1) =>
             (/\ lastReq'.shape = "chat"
              /\ lastReq'.transcript = lastReq.transcript))]_vars

C12_Witness ==
    /\ lastTool.name = "deleteAll" /\ toolDispatches = 1 /\ providerCalls = 2
    /\ schemaFetches = 0 /\ ipc = "done"
    /\ lastReq.transcript = <<"SYS-K8S", "make a pod">>

\* C13: arguments of a declared tool that cannot be deserialized end the
\* invocation with the deserialization error: the tool does not run (no
\* schema fetch), no retry is taken, and no attempt, provider call or tool
\* dispatch follows.
C13_MalformedArgumentsAreFatal ==
    /\ [](lastTool.err = UnmarshalError =>
            (ipc = "failed" /\ err = UnmarshalError /\ lastTool.fetches = 0))
    /\ [][/\ ((/\ ipc = "tool" /\ call.name \in DeclaredNames /\ ~call.args.wf
                /\ toolDispatches' = toolDispatches + 1) =>
                 (/\ lastTool'.err = UnmarshalError
                  /\ schemaFetches' = schemaFetches
                  /\ retries' = retries
                  /\ ipc' = "failed" /\ err' = UnmarshalError))
          /\ (lastTool.err = UnmarshalError =>
                 (/\ providerCalls' = providerCalls /\ attempts' = attempts
                  /\ toolDispatches' = toolDispatches))]_vars

C13_Witness ==
    /\ dpc = "exit" /\ exitCode = 1 /\ err = UnmarshalError
    /\ lastTool.name = "getSchema" /\ toolDispatches = 2 /\ schemaFetches = 1
    /\ retries = 1

\* C14, as claimed: a call of a declared tool whose arguments object lacks
\* the tool's required field gives a deserialization error, and the tool
\* does not run.
C14_MissingFieldIsRejected ==
    [][(/\ ipc = "tool" /\ toolDispatches' = toolDispatches + 1
        /\ call.args.wf
        /\ \/ call.name = "findSchemaNames" /\ "resourceName" \notin call.args.has
           \/ call.name = "getSchema" /\ "resourceType" \notin call.args.has) =>
          (lastTool'.err = UnmarshalError /\ schemaFetches' = schemaFetches)]_vars

\* C15: a schema fetch that fails, or whose body does not decode, ends the
\* invocation with that same error after that one fetch: no retry, no other
\* fetch, no further attempt or provider call.
C15_SchemaFailureIsFatal ==
    /\ [](lastTool.fetchErr # Nil =>
            (/\ lastTool.fetchErr \in {FetchError, DecodeError}
             /\ lastTool.fetches = 1
             /\ ipc = "failed" /\ err = lastTool.fetchErr))
    /\ [][/\ (lastTool'.fetchErr # Nil /\ lastTool.fetchErr = Nil =>
                 (schemaFetches' = schemaFetches + 1 /\ retries' = retries))
          /\ (lastTool.fetchErr # Nil =>
                 (/\ providerCalls' = providerCalls /\ attempts' = attempts
                  /\ schemaFetches' = schemaFetches
                  /\ toolDispatches' = toolDispatches))]_vars

C15_Witness ==
    /\ dpc = "exit" /\ exitCode = 1 /\ err = DecodeError
    /\ lastTool.fetchErr = DecodeError /\ lastTool.name = "findSchemaNames"
    /\ toolDispatches = 2 /\ schemaFetches = 2 /\ providerCalls = 2

\* C16: every chat request carries the mode auto when use-k8s-api is on and
\* none when it is off, and successive chat requests carry the same mode.
C16_ToolModeFollowsSwitch ==
    /\ [](lastReq.shape = "chat" =>
            lastReq.functionCall = IF flags.usek8sAPI THEN "auto" ELSE "none")
    /\ [][(lastReq.shape = "chat" /\ lastReq'.shape = "chat") =>
            lastReq'.functionCall = lastReq.functionCall]_vars

C16_Witness ==
    /\ ~flags.usek8sAPI /\ lastReq.shape = "chat"
    /\ lastReq.functionCall = "none" /\ providerCalls = 3 /\ rateLimited = 1

\* C17, as claimed: a chat request carries the two declared tool definitions
\* when use-k8s-api is on and no tool definition when it is off.
C17_ToolsOnlyWhenEnabled ==
    lastReq.shape = "chat" =>
        lastReq.functions =
            IF flags.usek8sAPI THEN <<"findSchemaNames", "getSchema">> ELSE <<>>

\* C18: trimTicks is idempotent, and what it returns holds no fence: for
\* every text, the second application gives what the first gave, and the
\* first result has no three-backtick marker in it.
C18_TrimTicksIdempotent ==
    /\ Len(trimmed) >= 1 => ~Contains(trimmed[1], Fence)
    /\ Len(trimmed) = 2 => trimmed[2] = trimmed[1]

\* a text in which removing the first marker puts a new one together
C18_Witness ==
    /\ subject = Fence \o <<"y", "a">> \o FenceYaml \o <<"m", "l">>
    /\ Len(trimmed) = 2
    /\ trimmed[1] = <<"y", "a", "m", "l">>

\* the last call of applyManifest
LastApply == applied[Len(applied)]

\* C19, as claimed: a run that met an error in the completion loop, in the
\* confirmation prompt or in the apply step exits with a status that is not
\* zero; a run that ends by Don't Apply, by raw output or by an apply that
\* succeeded exits with status zero.
C19_ErrorsExitNonZero ==
    dpc = "exit" =>
        /\ (\/ ipc \in {"failed", "panicked"}
            \/ choice = "error"
            \/ (/\ applied # <<>>
                /\ (LastApply.result.err # Nil \/ LastApply.result.undecoded))) =>
              exitCode # 0
        /\ (\/ choice = "Don't Apply"
            \/ (flags.raw /\ ipc = "done")
            \/ (/\ applied # <<>> /\ LastApply.result.err = Nil
                /\ ~LastApply.result.undecoded)) =>
              exitCode = 0

\* Every error that gptCompletion, userActionPrompt or applyManifest returns
\* does make the process exit with status 1, and the three good ends with
\* status 0.
ReturnedErrorsExitNonZero ==
    dpc = "exit" =>
        /\ (\/ ipc = "failed"
            \/ choice = "error"
            \/ (applied # <<>> /\ LastApply.result.err # Nil)) =>
              exitCode = 1
        /\ (\/ choice = "Don't Apply"
            \/ (flags.raw /\ ipc = "done")
            \/ (applied # <<>> /\ LastApply.result.err = Nil)) =>
              exitCode = 0

\* the prompt gptCompletion builds for the invocation in progress
InitialPrompt == BuildPrompt(flags.usek8sAPI, args)

\* C20: the transcript of every provider request is the invocation's initial
\* prompt followed by the results of the tools dispatched so far, in order,
\* each once; the first request of a retry carries the transcript of the
\* request that failed; and a request's transcript starts with the
\* transcript of the request before it.
C20_TranscriptIsPromptAndResults ==
    [][providerCalls' = providerCalls + 1 =>
         /\ lastReq'.transcript = InitialPrompt \o toolResults
         /\ ((ipc = "request" /\ providerCalls > 0) =>
                (attemptErr = RateLimit
                 /\ lastReq'.transcript = lastReq.transcript))
         /\ (providerCalls > 0 =>
                (/\ Len(lastReq'.transcript) >= Len(lastReq.transcript)
                 /\ SubSeq(lastReq'.transcript, 1, Len(lastReq.transcript))
                      = lastReq.transcript))]_vars

C20_Witness ==
    /\ providerCalls = 4 /\ toolDispatches = 2 /\ rateLimited = 1
    /\ attempts = 2
    /\ lastReq.transcript =
         <<"SYS-K8S", "make a pod", "P", "d", "\n", "P", "d", "S",
           "{schema}", "P", "d">>

\* C21, as claimed: the text of an invocation that ended Done holds no
\* three-backtick marker, whichever call shape produced it.
C21_ResultHasNoFence == ipc = "done" => ~Contains(resp, Fence)

NotEmpty(p) == p # ""

\* the system instruction and the fragments that are not empty, in order
FreshTranscript ==
    (IF flags.usek8sAPI THEN <<"SYS-K8S">> ELSE <<"SYS">>)
        \o SelectSeq(args, NotEmpty)

\* C22: every invocation, also one a reprompt started, begins with the
\* system instruction followed by the prompt fragments in order and nothing
\* else, with no retry used and no delay set; its first request carries that
\* transcript, and its first wait is the first delay of the backoff.
C22_FreshInvocation ==
    /\ (dpc = "completing" /\ attempts = 0) =>
          (/\ prompt = FreshTranscript /\ content = <<>> /\ toolResults = <<>>
           /\ retries = 0 /\ wait = 0 /\ rateLimited = 0
           /\ providerCalls = 0 /\ toolDispatches = 0)
    /\ (dpc = "completing" /\ providerCalls = 1) =>
          lastReq.transcript = FreshTranscript
    /\ (dpc = "completing" /\ ipc = "backoff" /\ rateLimited = 1) =>
          (retries = 1 /\ wait = 1)

C22_Witness ==
    /\ reprompts = 1 /\ dpc = "completing" /\ ipc = "backoff"
    /\ rateLimited = 1 /\ wait = 1 /\ providerCalls = 1
    /\ args = <<"make a pod", "", "use two replicas">>
    /\ lastReq.transcript = <<"SYS-K8S", "make a pod", "use two replicas">>

\* C23: an invocation that failed returns an empty text with its error;
\* run then prints no manifest, asks nothing and applies nothing, and ends
\* with status 1: what was printed is what the earlier iterations printed,
\* one completion for each reprompt made.
C23_FailureShowsNothing ==
    /\ [](ipc = "failed" => (resp = <<>> /\ err # Nil))
    /\ [][(dpc = "completing" /\ ipc = "failed") =>
            (/\ dpc' \in {"completing", "exit"}
             /\ printed' = printed /\ applied' = applied
             /\ choice' = choice)]_vars
    /\ []((dpc = "exit" /\ ipc = "failed") =>
            (/\ completion = <<>> /\ applied = <<>>
             /\ Len(printed) = reprompts /\ exitCode = 1))

C23_Witness ==
    /\ dpc = "exit" /\ ipc = "failed" /\ err = RequestError(500)
    /\ reprompts = 1 /\ printed = << <<"kind: Pod">> >> /\ applied = <<>>

\* C24: the wait that follows attempt k is of 2^(k-1) seconds, from 1
\* second and doubling up to the last retry, uncapped; an attempt other than
\* the first starts only after that wait; there is no wait before the first
\* attempt, and none after the attempt that uses no further retry.
C24_ExponentialWaits ==
    /\ [](ipc = "backoff" =>
            (attempts >= 1 /\ attempts <= MaxRetries
             /\ wait = 2 ^ (attempts - 1)))
    /\ []((dpc = "completing" /\ attempts = 0) => (wait = 0 /\ ipc # "backoff"))
    /\ [][/\ ((dpc = "completing" /\ ipc # "top" /\ ipc' = "top") =>
                 ipc = "backoff")
          /\ ((attempts' = attempts + 1 /\ attempts >= 1) =>
                 (ipc = "top" /\ wait = 2 ^ (attempts - 1)))
          /\ ((dpc = "completing" /\ dpc' = "completing" /\ wait' # wait) =>
                 ipc' = "backoff")]_vars

C24_Witness ==
    /\ ipc = "backoff" /\ attempts = 10 /\ wait = 512 /\ retries = 10

\* C25: the external calls of an invocation are made one at a time and in
\* order.  A step makes a provider request or dispatches a tool, never
\* both; a tool is dispatched only while the latest provider response is a
\* successful one that names a function, and before any further provider
\* request; every tool-call response is followed by exactly one dispatch;
\* nothing is dispatched once the invocation has ended.
C25_OneCallAtATime ==
    /\ [](/\ toolCallsSeen - toolDispatches \in {0, 1}
          /\ (toolCallsSeen = toolDispatches + 1) <=> (ipc = "tool")
          /\ ipc = "tool" =>
                (/\ call # NoCall /\ lastResp.received
                 /\ lastResp.err = Nil /\ lastResp.n >= 1))
    /\ [][/\ (toolDispatches' = toolDispatches + 1 =>
                 (ipc = "tool" /\ providerCalls' = providerCalls))
          /\ (providerCalls' = providerCalls + 1 =>
                 (/\ ipc \in {"request", "followup"}
                  /\ toolDispatches' = toolDispatches
                  /\ schemaFetches' = schemaFetches))
          /\ ((dpc = "completing" /\ schemaFetches' # schemaFetches) =>
                 (ipc = "tool" /\ schemaFetches' = schemaFetches + 1))
          /\ ((dpc = "completing" /\ Ended) =>
                 (/\ toolDispatches' = toolDispatches
                  /\ providerCalls' = providerCalls))]_vars

C25_Witness ==
    /\ ipc = "tool" /\ toolCallsSeen = 2 /\ toolDispatches = 1
    /\ providerCalls = 3 /\ rateLimited = 1
    /\ call.name = "getSchema" /\ schemaFetches = 1

\* C26, as claimed: a schema fetch that is running when ctx is cancelled is
\* aborted, its dispatch ends with the cancellation error and so does the
\* invocation.
C26_CancelAbortsFetch ==
    [][(/\ dpc = "completing" /\ ipc = "tool"
        /\ cancelled /\ cancelSeen = "tool"
        /\ schemaFetches' = schemaFetches + 1) =>
          (/\ lastTool'.fetchErr = CtxCanceled
           /\ lastTool'.content = <<>>
           /\ ipc' = "failed" /\ err' = CtxCanceled)]_vars

\* the lines of a text: the parts between its newlines
RECURSIVE Lines(_, _)
Lines(text, line) ==
    IF text = <<>> THEN <<line>>
    ELSE IF Head(text) = NL THEN <<line>> \o Lines(Tail(text), <<>>)
    ELSE Lines(Tail(text), Append(line, Head(text)))

\* the names a result of findSchemaNames lists
Listed(text) == IF text = <<>> THEN <<>> ELSE Lines(text, <<>>)

\* q occurs in k when both are written in lower case
OccursIn(q, k) ==
    \E i \in 1..(Len(k) + 1) : \E j \in (i - 1)..Len(k) :
        SubSeq(ToLower(k), i, j) = ToLower(q)

\* C27: over a fetched schema with a definitions map, findSchemaNames
\* returns, with no error, the newline-joined list of exactly the keys in
\* which the resource name occurs when both are lower-cased, each once: all
\* keys for the empty name, the empty text when no key matches.
C27_NamesAreTheMatchingKeys ==
    (found # <<>> /\ lookup.fetched.err = Nil
        /\ lookup.fetched.schema.hasDefinitions) =>
      LET names == Listed(found[1].content)
          keys == lookup.fetched.schema.keys
          matching == {k \in keys : OccursIn(lookup.resourceName, k)}
      IN  /\ found[1].err = Nil
          /\ {names[i] : i \in DOMAIN names} = matching
          /\ Len(names) = Cardinality(matching)
          /\ lookup.resourceName = <<>> => Len(names) = Cardinality(keys)
          /\ matching = {} => found[1].content = <<>>

C27_Witness ==
    /\ lookup.resourceName = <<"d", "S">>
    /\ lookup.fetched.err = Nil
    /\ lookup.fetched.schema.keys = SchemaKeys
    /\ found # <<>>
    /\ found[1].content = KeyLower \o <<NL>> \o KeyPodSpec

\* C28: every dispatch of a declared tool whose arguments deserialized
\* fetches the schema once, whatever was fetched before, and no other
\* dispatch fetches: the fetches of an invocation are as many as those
\* dispatches.
C28_EveryDispatchFetches ==
    /\ [](schemaFetches <= toolDispatches
            /\ (toolDispatches = 0 => schemaFetches = 0))
    /\ [][toolDispatches' = toolDispatches + 1 =>
            schemaFetches' = schemaFetches +
                (IF call.name \in DeclaredNames /\ call.args.wf THEN 1 ELSE 0)]_vars
    /\ [][schemaFetches' > schemaFetches =>
            toolDispatches' = toolDispatches + 1]_vars

C28_Witness ==
    /\ toolDispatches = 2 /\ schemaFetches = 2
    /\ lastTool.name = "getSchema"
    /\ lastTool.content = SchemaJSON(KeyPod)
    /\ toolResults = SchemaJSON(KeyPod) \o SchemaJSON(KeyPod)

\* C29: a getSchema call whose resource type is not a key of the fetched
\* definitions hands no result to the model: it ends the invocation as
\* failed with the error "unable to find resource schema", with no retry
\* and no further attempt, dispatch or provider call.
C29_UnknownTypeIsFatal ==
    /\ [][(/\ toolDispatches' = toolDispatches + 1
            /\ call.name = "getSchema" /\ call.args.wf
            /\ lastTool'.fetchErr = Nil /\ lastTool'.schema.hasDefinitions
            /\ Field(call.args, "resourceType") \notin lastTool'.schema.keys) =>
              (/\ lastTool'.err = NotFoundError /\ lastTool'.content = <<>>
               /\ toolResults' = toolResults
               /\ ipc' = "failed" /\ err' = NotFoundError
               /\ retries' = retries /\ providerCalls' = providerCalls)]_vars
    /\ [](lastTool.err = NotFoundError =>
            (/\ lastTool.name = "getSchema"
             /\ ipc = "failed" /\ err = NotFoundError))
    /\ [][lastTool.err = NotFoundError =>
            (/\ providerCalls' = providerCalls /\ attempts' = attempts
             /\ retries' = retries /\ toolDispatches' = toolDispatches)]_vars

C29_Witness ==
    /\ dpc = "exit" /\ exitCode = 1 /\ err = NotFoundError
    /\ lastTool.name = "getSchema" /\ lastTool.schema = DefinitionsA
    /\ toolDispatches = 2 /\ schemaFetches = 2 /\ providerCalls = 2

\* C30, as claimed: with use-k8s-api off no tool is dispatched and no
\* schema is fetched, whatever the provider answers.
C30_NoToolsWhenDisabled ==
    ~flags.usek8sAPI => (toolDispatches = 0 /\ schemaFetches = 0)

\* C31: the manifest handed to applyManifest is the text the latest call of
\* gptCompletion returned, with no error, and the text shown last; it is
\* applied once, after as many completions as were shown, and a completion
\* shown before a reprompt is not the one handed over.
C31_AppliedIsLatestCompletion ==
    /\ [](applied # <<>> =>
            (/\ Len(applied) = 1
             /\ applied[1].manifest = resp
             /\ applied[1].manifest = completion
             /\ ipc = "done" /\ err = Nil
             /\ Len(printed) = reprompts + 1
             /\ applied[1].manifest = printed[Len(printed)]))
    /\ [][applied' # applied =>
            (/\ dpc = "applying" /\ action = apply
             /\ applied' = Append(applied, applied'[Len(applied')])
             /\ applied'[Len(applied')].manifest = resp
             /\ printed' = printed)]_vars

C31_Witness ==
    /\ applied # <<>> /\ reprompts = 1 /\ choice = apply
    /\ Len(printed) = 2 /\ printed[1] # printed[2]
    /\ applied[1].manifest = printed[2]

\* every request of a completion is made with the fragments of the request
\* before it, in their order, followed by the action just given, which
\* after a reprompt is the text the user typed; the fragments never shrink
\* or change place, and the prompt is built from all of them
FragmentsGrow ==
    [][/\ (Len(args') >= Len(args) /\ SubSeq(args', 1, Len(args)) = args)
       /\ (args' # args =>
              (/\ dpc = "loop" /\ dpc' = "completing"
               /\ args' = Append(args, action)
               /\ prompt' = SystemInstruction(flags.usek8sAPI) \o Concat(args')
               /\ (reprompts >= 1 => action \in RepromptTexts)))
       /\ ((dpc = "prompting" /\ dpc' = "loop") =>
              (action' \in RepromptTexts /\ reprompts' = reprompts + 1))
       /\ (dpc = "loop" => dpc' \in {"loop", "completing"})]_vars

\* C32, as claimed: the fragments grow as above and run leaves its loop
\* only with the action Apply or Don't Apply or with an error.
C32_LoopUntilDecision ==
    /\ FragmentsGrow
    /\ [](dpc \in {"applying", "exit"} =>
            (action \in {apply, dontApply} \/ exitCode \in {1, 2}))

\* C32, amended: the fragments grow as above and run leaves its loop only
\* with the action Apply or Don't Apply, with an error, or, in raw mode,
\* after its first completion, printed without a prompt for an action.
C32_LoopUntilDecisionOrRaw ==
    /\ FragmentsGrow
    /\ [](dpc \in {"applying", "exit"} =>
            (\/ action \in {apply, dontApply}
             \/ exitCode \in {1, 2}
             \/ (/\ flags.raw /\ exitCode = 0 /\ action = ""
                 /\ reprompts = 0 /\ Len(printed) = 1)))
    /\ []((dpc = "exit" /\ flags.raw) => reprompts = 0)

C32_Witness ==
    /\ dpc = "exit" /\ exitCode = 0 /\ action = dontApply /\ reprompts = 1
    /\ args = <<"make a pod", "", "use two replicas">>
    /\ lastReq.transcript = <<"SYS", "make a pod", "use two replicas">>

\* the documents of a call of applyManifest that come before its first
\* document that is not applied
AppliedPrefix(docs) ==
    {j \in DOMAIN docs : \A k \in 1..j : docs[k] = "applied"}

\* C33, as claimed: applyManifest returns nil only when every document of
\* the manifest was decoded and applied, and an error when a document does
\* not decode.
C33_NilOnlyWhenAllApplied ==
    \A i \in DOMAIN applied :
        /\ applied[i].result.err = Nil =>
              (/\ applied[i].result.count = Len(applied[i].docs)
               /\ \A j \in DOMAIN applied[i].docs :
                     applied[i].docs[j] = "applied")
        /\ (\E j \in DOMAIN applied[i].docs :
               /\ applied[i].docs[j] = "undecodable"
               /\ j - 1 \in AppliedPrefix(applied[i].docs) \cup {0}) =>
              applied[i].result.err # Nil

\* C34: applyManifest applies the documents in their order, one after the
\* other: those applied are the documents before the first one that is not
\* applied.  When applying a document fails, the call returns that error,
\* the documents before it are applied and stay so, none after it is, and
\* the process exits with status 1.
C34_ApplyStopsAtFirstFailure ==
    \A i \in DOMAIN applied :
        LET docs == applied[i].docs
            r == applied[i].result
        IN  /\ r.count = Cardinality(AppliedPrefix(docs))
            /\ r.err = ApplyError =>
                  (/\ r.count < Len(docs)
                   /\ docs[r.count + 1] = "failed"
                   /\ (dpc = "exit" => exitCode = 1))
            /\ (r.count < Len(docs) /\ docs[r.count + 1] = "failed") =>
                  r.err = ApplyError

C34_Witness ==
    /\ dpc = "exit" /\ exitCode = 1 /\ applied # <<>>
    /\ applied[1].docs = <<"applied", "failed">>
    /\ applied[1].result.count = 1
    /\ applied[1].result.err = ApplyError

\* C35: a command given no prompt argument, or an empty API key, ends with
\* status 1 straight from its start: run is not entered, so no provider
\* call, no schema fetch and no apply is made and nothing is printed.
\* Whatever was started was started with a key and a prompt.
C35_NothingWithoutPromptOrKey ==
    /\ []((flags.openAIAPIKey = "" \/ args = <<>>) =>
            (/\ dpc \in {"init", "exit"}
             /\ dpc = "exit" => exitCode = 1
             /\ ipc = "idle" /\ attempts = 0 /\ providerCalls = 0
             /\ toolDispatches = 0 /\ schemaFetches = 0
             /\ applied = <<>> /\ printed = <<>>))
    /\ []((\/ dpc \in {"loop", "completing", "prompting", "applying"}
           \/ ipc # "idle" \/ applied # <<>> \/ printed # <<>>) =>
            (/\ flags.openAIAPIKey # ""
             /\ args # <<>> /\ args[1] = "make a pod"))
    /\ [][(dpc = "init" /\ (flags.openAIAPIKey = "" \/ args = <<>>)) =>
            (dpc' = "exit" /\ exitCode' = 1)]_vars

C35_Witness ==
    /\ dpc = "exit" /\ exitCode = 1
    /\ flags.openAIAPIKey # "" /\ args = <<>>
    /\ flags.usek8sAPI /\ ~flags.raw
    /\ providerCalls = 0 /\ applied = <<>>

====
